---- MODULE Spec2Model ----
(***************************************************************************)
(* Model of the document indexing engine of pdf_bot.py:                    *)
(* AdvancedPDFProcessor (load_cache, save_cache, update_documents) together *)
(* with the document directory and the snapshot file it works on.          *)
(*                                                                         *)
(* update_documents is modelled step by step (listing + clear, one step    *)
(* per file, the two halves of save_cache, the return) because a crash, a  *)
(* file change or another caller can fall between these steps.             *)
(***************************************************************************)
EXTENDS Integers, Sequences, FiniteSets, TLC

\* ---------------------------------------------------------------- bounds
\* Latest reading of datetime.now() the model lets a pass start at.
MaxClock == 2
\* File contents are numbered 1..MaxContent; 0 stands for "no such file".
MaxContent == 3
\* Longest chunk list of one file in the indexes a search is tried on.
MaxChunks == 2
\* Largest max_results a search is tried with, besides the default.
MaxResults == 2

\* ------------------------------------------------------------- universe
Files == {"a.pdf", "b.pdf"}
Contents == 1..MaxContent
\* Callers of update_documents: __init__ and the executor's workers.
Procs == {1, 2}
\* What can happen to one file of a pass: everything works, reading the
\* file for the hash raises, both extraction strategies fail (empty text),
\* pdf_file.stat() raises after segmentation, or the file is replaced
\* between the read that hashes it (line 279) and the read that extracts
\* its text (line 292).
Outcomes == {"ok", "hash_raises", "extract_empty", "stat_raises", "rewritten"}
\* The outcomes in which the file stays as it is while it is processed.
StableOutcomes == Outcomes \ {"rewritten"}

EmptyMap == << >>

Put(m, k, v) == [x \in (DOMAIN m) \cup {k} |-> IF x = k THEN v ELSE m[x]]

\* Orders in which glob may list a set of files.
Listings(S) ==
  {s \in [1..Cardinality(S) -> S] : \A i, j \in 1..Cardinality(S) : s[i] = s[j] => i = j}

\* -------------------------------------------------------------- strings
\* A str is the tuple of its characters. A character outside ASCII is
\* written as its code point ("U+0413" is the Cyrillic capital GHE).
UpperLetters ==
  <<"A", "B", "C", "D", "E", "F", "G", "H", "I", "J", "K", "L", "M", "N",
    "O", "P", "Q", "R", "S", "T", "U", "V", "W", "X", "Y", "Z", "U+0410",
    "U+0411", "U+0412", "U+0413", "U+0414", "U+0415", "U+0416", "U+0417",
    "U+0418", "U+0419", "U+041A", "U+041B", "U+041C", "U+041D", "U+041E",
    "U+041F", "U+0420", "U+0421", "U+0422", "U+0423", "U+0424", "U+0425",
    "U+0426", "U+0427", "U+0428", "U+0429", "U+042A", "U+042B", "U+042C",
    "U+042D", "U+042E", "U+042F", "U+0401">>
LowerLetters ==
  <<"a", "b", "c", "d", "e", "f", "g", "h", "i", "j", "k", "l", "m", "n",
    "o", "p", "q", "r", "s", "t", "u", "v", "w", "x", "y", "z", "U+0430",
    "U+0431", "U+0432", "U+0433", "U+0434", "U+0435", "U+0436", "U+0437",
    "U+0438", "U+0439", "U+043A", "U+043B", "U+043C", "U+043D", "U+043E",
    "U+043F", "U+0440", "U+0441", "U+0442", "U+0443", "U+0444", "U+0445",
    "U+0446", "U+0447", "U+0448", "U+0449", "U+044A", "U+044B", "U+044C",
    "U+044D", "U+044E", "U+044F", "U+0451">>

Range(s) == {s[i] : i \in DOMAIN s}
Min(a, b) == IF a < b THEN a ELSE b

\* The characters of the classes [a-zA-Z and Cyrillic], [0-9], \w, \s
\* and [0-9.-] of the regular expressions.
Letters == Range(UpperLetters) \cup Range(LowerLetters)
Digits == {"0", "1", "2", "3", "4", "5", "6", "7", "8", "9"}
WordChars == Letters \cup Digits \cup {"_"}
NumberChars == Digits \cup {".", "-"}
IsLetter(ch) == ch \in Letters
IsWordChar(ch) == ch \in WordChars
\* \s: the file names of the model have no white space but the space.
SpaceChars == {" "}

\* str.lower()
LowerOf == [ch \in Range(UpperLetters) |->
              LowerLetters[CHOOSE i \in DOMAIN UpperLetters : UpperLetters[i] = ch]]
char_lower(ch) == IF ch \in DOMAIN LowerOf THEN LowerOf[ch] ELSE ch
str_lower(s) == << >> \o [i \in 1..Len(s) |-> char_lower(s[i])]

\* `w in s` for two strs
str_in(w, s) == \E i \in 0..(Len(s) - Len(w)) : SubSeq(s, i + 1, i + Len(w)) = w

\* s[:n] for a str or a list
take(s, n) == SubSeq(s, 1, Min(n, Len(s)))

\* s.split(':')[0]
split_colon_first(s) ==
  IF \E i \in DOMAIN s : s[i] = ":"
  THEN SubSeq(s, 1, (CHOOSE i \in DOMAIN s : s[i] = ":" /\ \A j \in 1..(i - 1) : s[j] # ":") - 1)
  ELSE s

\* str(n) for n >= 0
RECURSIVE int_str(_)
int_str(n) ==
  LET digit == <<"0", "1", "2", "3", "4", "5", "6", "7", "8", "9">>[(n % 10) + 1]
  IN  IF n < 10 THEN <<digit>> ELSE int_str(n \div 10) \o <<digit>>

\* The last position of the run of characters of a class that starts at i
\* (i - 1 if s[i] is not of the class).
RunEnd(s, i, class) ==
  CHOOSE e \in (i - 1)..Len(s) :
    /\ \A k \in i..e : s[k] \in class
    /\ e = Len(s) \/ s[e + 1] \notin class

\* re.findall(r'\b[a-zA-Z and Cyrillic]{n,}\b', s), in order of occurrence:
\* the runs of word characters that are letters only and at least n long.
re_findall_words(s, n) ==
  LET starts == {i \in DOMAIN s :
                   /\ IsWordChar(s[i])
                   /\ i = 1 \/ ~IsWordChar(s[i - 1])
                   /\ RunEnd(s, i, WordChars) - i + 1 >= n
                   /\ \A k \in i..RunEnd(s, i, WordChars) : IsLetter(s[k])}
      nth(k) == CHOOSE i \in starts : Cardinality({j \in starts : j < i}) = k - 1
  IN  << >> \o [k \in 1..Cardinality(starts) |->
                   SubSeq(s, nth(k), RunEnd(s, nth(k), WordChars))]

\* A stable sort of records by descending field `score`:
\* list.sort(key=lambda x: x["score"], reverse=True), and the order of
\* Counter.most_common.
insert_desc(sorted, x) ==
  LET n == Cardinality({i \in DOMAIN sorted : sorted[i].score >= x.score})
  IN  SubSeq(sorted, 1, n) \o <<x>> \o SubSeq(sorted, n + 1, Len(sorted))

RECURSIVE sorted_desc(_)
sorted_desc(s) ==
  IF s = << >> THEN << >>
  ELSE insert_desc(sorted_desc(SubSeq(s, 1, Len(s) - 1)), s[Len(s)])

\* stop_words of extract_keywords (lines 240-245)
stop_words ==
  {<<"U+0438">>, <<"U+0432">>, <<"U+043D", "U+0430">>, <<"U+0441">>,
   <<"U+043F", "U+043E">>, <<"U+0434", "U+043B", "U+044F">>,
   <<"U+043E", "U+0442">>, <<"U+0434", "U+043E">>, <<"U+0438", "U+0437">>,
   <<"U+043D", "U+0435">>, <<"U+0447", "U+0442", "U+043E">>,
   <<"U+044D", "U+0442", "U+043E">>, <<"U+043A", "U+0430", "U+043A">>,
   <<"U+0442", "U+0430", "U+043A">>, <<"U+0438", "U+043B", "U+0438">>,
   <<"U+043D", "U+043E">>, <<"U+0437", "U+0430">>, <<"U+0436", "U+0435">>,
   <<"U+0431", "U+044B">>, <<"t", "h", "e">>, <<"a", "n", "d">>,
   <<"o", "f">>, <<"t", "o">>, <<"i", "n">>, <<"a">>, <<"i", "s">>,
   <<"t", "h", "a", "t">>, <<"f", "o", "r">>, <<"i", "s", "o">>,
   <<"U+0433", "U+043E", "U+0441", "U+0442">>,
   <<"U+0441", "U+0442", "U+0430", "U+043D", "U+0434", "U+0430", "U+0440", "U+0442">>,
   <<"U+0434", "U+043E", "U+043A", "U+0443", "U+043C", "U+0435", "U+043D", "U+0442">>,
   <<"U+0441", "U+0442", "U+0440", "U+0430", "U+043D", "U+0438", "U+0446", "U+0430">>}

\* ------------------------------------------------- texts and file names
\* The page text of a PDF with content c. The first two sample texts have
\* the same first 200 characters and differ after them.
SampleHead == <<"S", "t", "e", "e", "l", " ", "p", "i", "p", "e", " ">> \o [i \in 1..189 |-> "-"]
SampleTexts ==
  << SampleHead \o <<" ", "o", "n", "e">>,
     SampleHead \o <<" ", "t", "w", "o">>,
     <<"B", "o", "l", "t", " ", "M", "8", ",", " ", "s", "t", "e", "e", "l", " ", "b", "o", "l", "t">> >>
TextOf(c) == SampleTexts[((c - 1) % Len(SampleTexts)) + 1]

\* File names a search is tried with: those of the folder and one that
\* carries a standard number.
SearchFiles == Files \cup {"ISO 9 steel.pdf"}
FileChars(f) ==
  CASE f = "a.pdf" -> <<"a", ".", "p", "d", "f">>
    [] f = "b.pdf" -> <<"b", ".", "p", "d", "f">>
    [] f = "ISO 9 steel.pdf" -> <<"I", "S", "O", " ", "9", " ", "s", "t", "e", "e", "l", ".", "p", "d", "f">>

\* Questions: "Steel pipe ISO 9", "pdf bolt", "iso 9 Pipes", "bol M8".
Questions ==
  { <<"S", "t", "e", "e", "l", " ", "p", "i", "p", "e", " ", "I", "S", "O", " ", "9">>,
    <<"p", "d", "f", " ", "b", "o", "l", "t">>,
    <<"i", "s", "o", " ", "9", " ", "P", "i", "p", "e", "s">>,
    <<"b", "o", "l", " ", "M", "8">> }

\* ---------------------------------------------------- extract_keywords
\* The distinct elements of a list in order of first occurrence (the keys
\* of Counter(words)).
RECURSIVE distinct(_)
distinct(s) ==
  IF s = << >> THEN << >>
  ELSE LET rest == distinct(SubSeq(s, 1, Len(s) - 1))
       IN  IF s[Len(s)] \in Range(rest) THEN rest ELSE Append(rest, s[Len(s)])

\* Counter(words).most_common(n)
most_common(words, n) ==
  LET keys == distinct(words)
      items == [i \in DOMAIN keys |->
                  [word |-> keys[i],
                   score |-> Cardinality({j \in DOMAIN words : words[j] = keys[i]})]]
  IN  take(sorted_desc(items), n)

\* The loop of lines 255-260 from item i on.
RECURSIVE keywords_from(_, _, _, _)
keywords_from(items, i, keywords, max_keywords) ==
  IF i > Len(items) THEN keywords
  ELSE IF items[i].word \notin stop_words /\ Len(items[i].word) > 2
  THEN LET more == Append(keywords, items[i].word \o <<":">> \o int_str(items[i].score))
       IN  IF Len(more) >= max_keywords THEN more
           ELSE keywords_from(items, i + 1, more, max_keywords)
  ELSE keywords_from(items, i + 1, keywords, max_keywords)

extract_keywords(text, max_keywords) ==
  keywords_from(most_common(re_findall_words(str_lower(text), 3), 20), 1, << >>,
                max_keywords)

\* ------------------------------------------------------- pure functions
\* hashlib.md5 of the whole file: a digest that tells contents apart.
calculate_file_hash(c) == <<"md5", c>>

\* Length of what lines 116 and 158 put around the text of page 1, once
\* the whole text is stripped: two rules of 60, the page line, three line
\* ends.
PageHeaderLen == 133

\* Length of text.strip() for the text extracted from content c. Every
\* third content has no page text and yields exactly 100 characters of
\* notes (the largest unusable length), the others their page text under
\* the page header.
TextLen(c) == IF c % 3 = 0 THEN 100 ELSE PageHeaderLen + Len(TextOf(c))

EmptyText == [id |-> 0, len |-> 0]
UnknownMetadata == [pages |-> 0, extraction_method |-> "unknown"]

\* extract_text_advanced: (text, metadata); when both strategies fail it
\* returns ("", metadata) instead of raising.
extract_text_advanced(c, o) ==
  IF o = "extract_empty"
  THEN [text |-> EmptyText, metadata |-> UnknownMetadata]
  ELSE [text |-> [id |-> c, len |-> TextLen(c)],
        metadata |-> [pages |-> 1, extraction_method |-> "pdfplumber"]]

\* extract_keywords(chunk["text"]) (line 233) for the texts of the model.
Keywords == [c \in Contents |-> extract_keywords(TextOf(c), 10)]

\* chunk_text_intelligently on a text shorter than one chunk: one chunk.
chunk_text_intelligently(text, filename) ==
  IF text.len = 0 THEN << >>
  ELSE << [text |-> text.id, page |-> 1, source |-> filename,
           chunk_type |-> "page_section", keywords |-> Keywords[text.id]] >>

\* A variant that lets a text of exactly 100 characters through.
UsableFrom100(text) == text.len >= 100

\* `if text and len(text.strip()) > 100`
Usable(text) == text.len > 100

\* A variant that clears the index before it looks for the folder.
index_cleared_first(chunks, exists) == EmptyMap

\* A variant that leaves the index as it is.
index_kept(chunks, exists) == chunks

\* chunk_index after lines 266-275: untouched when the folder is missing
\* (the function has returned at line 269), cleared otherwise.
index_after_start(chunks, exists) == IF exists THEN EmptyMap ELSE chunks

\* A variant that saves after every pass.
ShouldSaveAlways(n) == TRUE

\* `if updated_count > 0` before save_cache
ShouldSave(n) == n > 0

\* A variant without the per-file try/except: the error leaves the loop.
FileHandlerReraises(outcome) == IF outcome = "error" THEN "raise" ELSE "continue"

\* `except Exception` around one file's processing (lines 316-318): the
\* error is logged and the loop goes on with the next file.
FileHandler(outcome) == "continue"

\* `except Exception` of save_cache (lines 83-84): logged, not re-raised.
SaveHandler(failed) == "continue"

\* st_size of a file with content c
FileSize(c) == 1000 + c

\* A variant that keeps the fingerprint of the record being replaced out of
\* the new one.
DocumentRecordNoHash(file_hash, ex, chunks, now, c) ==
  [file_hash |-> <<"md5", 0>>,
   metadata |-> ex.metadata,
   text_preview |-> ex.text.id,
   chunk_count |-> Len(chunks),
   processed_at |-> now,
   file_size |-> FileSize(c)]

\* The Document Record written at lines 299-306.
DocumentRecord(file_hash, ex, chunks, now, c) ==
  [file_hash |-> file_hash,
   metadata |-> ex.metadata,
   text_preview |-> ex.text.id,
   chunk_count |-> Len(chunks),
   processed_at |-> now,
   file_size |-> FileSize(c)]

\* A variant that skips a file whose fingerprint matches its record even
\* when chunk_index has no entry for it.
process_file_skip_cached(docs, chunks, filename, c, c2, o, now) ==
  LET file_hash == calculate_file_hash(c)
      cached == filename \in DOMAIN docs /\ docs[filename].file_hash = file_hash
      ex == extract_text_advanced(c2, o)
      cks == chunk_text_intelligently(ex.text, filename)
      keep(outcome, m, len) == [documents_cache |-> docs, chunk_index |-> chunks,
                                n |-> 0, outcome |-> outcome, matched |-> m,
                                textlen |-> len]
  IN  IF c = 0 \/ o = "hash_raises" THEN keep("error", FALSE, -1)
      ELSE IF cached THEN keep("skipped", TRUE, -1)
      ELSE IF ~Usable(ex.text) THEN keep("unusable", cached, ex.text.len)
      ELSE IF o = "stat_raises" THEN keep("error", cached, ex.text.len)
      ELSE [documents_cache |-> Put(docs, filename,
                                    DocumentRecord(file_hash, ex, cks, now, c2)),
            chunk_index |-> Put(chunks, filename, cks),
            n |-> 1, outcome |-> "indexed", matched |-> cached,
            textlen |-> ex.text.len]

\* A variant that indexes the chunks before it builds the record.
process_file_index_first(docs, chunks, filename, c, c2, o, now) ==
  LET file_hash == calculate_file_hash(c)
      cached == filename \in DOMAIN docs /\ docs[filename].file_hash = file_hash
      ex == extract_text_advanced(c2, o)
      cks == chunk_text_intelligently(ex.text, filename)
      keep(outcome, m, len) == [documents_cache |-> docs, chunk_index |-> chunks,
                                n |-> 0, outcome |-> outcome, matched |-> m,
                                textlen |-> len]
  IN  IF c = 0 \/ o = "hash_raises" THEN keep("error", FALSE, -1)
      ELSE IF cached /\ filename \in DOMAIN chunks THEN keep("skipped", TRUE, -1)
      ELSE IF ~Usable(ex.text) THEN keep("unusable", cached, ex.text.len)
      ELSE IF o = "stat_raises"
      THEN [documents_cache |-> docs, chunk_index |-> Put(chunks, filename, cks),
            n |-> 0, outcome |-> "error", matched |-> cached, textlen |-> ex.text.len]
      ELSE [documents_cache |-> Put(docs, filename,
                                    DocumentRecord(file_hash, ex, cks, now, c2)),
            chunk_index |-> Put(chunks, filename, cks),
            n |-> 1, outcome |-> "indexed", matched |-> cached,
            textlen |-> ex.text.len]

\* The body of the for loop of update_documents for one file: c is the
\* file's content when it is hashed (0: the file is gone), c2 its content
\* when it is extracted and stat'ed, o what happens to it, now the clock.
\* Yields the two maps, the increment of updated_count and what became of
\* the file.
process_file(docs, chunks, filename, c, c2, o, now) ==
  LET file_hash == calculate_file_hash(c)
      cached == filename \in DOMAIN docs /\ docs[filename].file_hash = file_hash
      ex == extract_text_advanced(c2, o)
      cks == chunk_text_intelligently(ex.text, filename)
      keep(outcome, m, len) == [documents_cache |-> docs, chunk_index |-> chunks,
                                n |-> 0, outcome |-> outcome, matched |-> m,
                                textlen |-> len]
  IN  IF c = 0 \/ o = "hash_raises" THEN keep("error", FALSE, -1)
      ELSE IF cached /\ filename \in DOMAIN chunks THEN keep("skipped", TRUE, -1)
      ELSE IF ~Usable(ex.text) THEN keep("unusable", cached, ex.text.len)
      ELSE IF o = "stat_raises" THEN keep("error", cached, ex.text.len)
      ELSE [documents_cache |-> Put(docs, filename,
                                    DocumentRecord(file_hash, ex, cks, now, c2)),
            chunk_index |-> Put(chunks, filename, cks),
            n |-> 1, outcome |-> "indexed", matched |-> cached,
            textlen |-> ex.text.len]

\* -------------------------------------------------------------- search
\* The six patterns of extract_standard_number, in order: the letters of
\* the code (matched without regard to case) and whether the code comes
\* before the number.
StandardPatterns ==
  << [code |-> <<"U+0433", "U+043E", "U+0441", "U+0442">>, code_first |-> TRUE],
     [code |-> <<"i", "s", "o">>, code_first |-> TRUE],
     [code |-> <<"U+0441", "U+0442">>, code_first |-> TRUE],
     [code |-> <<"e", "n">>, code_first |-> TRUE],
     [code |-> <<"U+0433", "U+043E", "U+0441", "U+0442">>, code_first |-> FALSE],
     [code |-> <<"i", "s", "o">>, code_first |-> FALSE] >>

CodeAt(s, i, code) ==
  /\ i >= 1
  /\ i + Len(code) - 1 <= Len(s)
  /\ str_lower(SubSeq(s, i, i + Len(code) - 1)) = code

\* Where a match of the pattern that starts at i ends, 0 if there is none:
\* code, \s*, [0-9.-]+ or [0-9.-]+, \s*, code.
MatchEnd(s, i, pat) ==
  IF pat.code_first
  THEN LET sp == RunEnd(s, i + Len(pat.code), SpaceChars)
           e == RunEnd(s, sp + 1, NumberChars)
       IN  IF CodeAt(s, i, pat.code) /\ e >= sp + 1 THEN e ELSE 0
  ELSE LET e == RunEnd(s, i, NumberChars)
           sp == RunEnd(s, e + 1, SpaceChars)
       IN  IF e >= i /\ CodeAt(s, sp + 1, pat.code) THEN sp + Len(pat.code) ELSE 0

\* re.search(pattern, s, re.IGNORECASE).group(1): the leftmost match,
\* << >> if there is none.
re_search(pat, s) ==
  LET starts == {i \in DOMAIN s : MatchEnd(s, i, pat) > 0}
  IN  IF starts = {} THEN << >>
      ELSE LET i == CHOOSE x \in starts : \A y \in starts : x <= y
           IN  SubSeq(s, i, MatchEnd(s, i, pat))

RECURSIVE first_match(_, _)
first_match(patterns, s) ==
  IF patterns = << >> THEN << >>
  ELSE IF re_search(Head(patterns), s) # << >> THEN re_search(Head(patterns), s)
  ELSE first_match(Tail(patterns), s)

\* extract_standard_number: the first pattern that matches decides;
\* << >> stands for None.
extract_standard_number(filename) == first_match(StandardPatterns, filename)

\* set(re.findall(..., question_lower)) (lines 330-331)
question_words(question) == Range(re_findall_words(str_lower(question), 3))

\* The words of the questions of the model, chunk["text"].lower() (line
\* 342) for the texts of the model, and for each text the question words
\* that `word in chunk_text` (line 345) finds in it.
QuestionWords == [q \in Questions |-> question_words(q)]
Vocabulary == UNION {QuestionWords[q] : q \in Questions}
LoweredText == [c \in Contents |-> str_lower(TextOf(c))]
WordsIn == [c \in Contents |-> {w \in Vocabulary : str_in(w, LoweredText[c])}]

\* Lines 344-346: +2 for each question word found in the chunk text.
RECURSIVE word_score(_, _)
word_score(words, text) ==
  IF words = {} THEN 0
  ELSE LET word == CHOOSE w \in words : TRUE
       IN  (IF word \in WordsIn[text] THEN 2 ELSE 0)
             + word_score(words \ {word}, text)

\* Lines 349-352: +3 for each keyword entry whose word is a question word.
RECURSIVE keyword_score(_, _)
keyword_score(chunk_keywords, words) ==
  IF chunk_keywords = << >> THEN 0
  ELSE (IF split_colon_first(Head(chunk_keywords)) \in words THEN 3 ELSE 0)
         + keyword_score(Tail(chunk_keywords), words)

\* A variant that adds the bonus once for every question word in the name.
filename_score_each(words, filename) ==
  5 * Cardinality({w \in words : str_in(w, str_lower(FileChars(filename)))})

\* filename.lower() and extract_standard_number(filename) for the file
\* names of the model.
LoweredName == [f \in SearchFiles |-> str_lower(FileChars(f))]
StandardNumber == [f \in SearchFiles |-> extract_standard_number(FileChars(f))]

\* Lines 355-356: +5 if any question word is in the lowercased file name.
filename_score(words, filename) ==
  IF \E w \in words : str_in(w, LoweredName[filename]) THEN 5 ELSE 0

\* Lines 359-361: +10 if the file name's standard number is in the question.
standard_score(filename, question) ==
  LET doc_standard == StandardNumber[filename]
  IN  IF doc_standard # << >> /\ str_in(doc_standard, question) THEN 10 ELSE 0

\* chunk.get("keywords", [])
chunk_keywords_of(chunk) == IF "keywords" \in DOMAIN chunk THEN chunk.keywords ELSE << >>

\* The score of one chunk (lines 337-361) for the question and its words.
chunk_score(filename, chunk, question, words) ==
  word_score(words, chunk.text)
    + keyword_score(chunk_keywords_of(chunk), words)
    + filename_score(words, filename)
    + standard_score(filename, question)

\* The inner loop (lines 336-369) over the chunks of one file.
\* A variant that keeps a chunk only when its score is above 5.
scored_chunk_over5(filename, chunk, score) ==
  IF score > 5
  THEN << [score |-> score, text |-> chunk.text, source |-> filename,
           page |-> chunk.page, chunk_type |-> chunk.chunk_type] >>
  ELSE << >>

\* Lines 363-369: a chunk with a positive score is appended to results.
scored_chunk(filename, chunk, score) ==
  IF score > 0
  THEN << [score |-> score, text |-> chunk.text, source |-> filename,
           page |-> chunk.page, chunk_type |-> chunk.chunk_type] >>
  ELSE << >>

RECURSIVE score_chunks(_, _, _, _)
score_chunks(filename, chunks, question, words) ==
  IF chunks = << >> THEN << >>
  ELSE scored_chunk(filename, Head(chunks),
                    chunk_score(filename, Head(chunks), question, words))
         \o score_chunks(filename, Tail(chunks), question, words)

\* The outer loop (line 335) for a dict whose keys come in the given order.
RECURSIVE score_files(_, _, _, _)
score_files(index, order, question, words) ==
  IF order = << >> THEN << >>
  ELSE score_chunks(Head(order), index[Head(order)], question, words)
         \o score_files(index, Tail(order), question, words)

\* Lines 330-369: `results` when the loops are done.
score_index(index, order, question) ==
  score_files(index, order, question, QuestionWords[question])

\* result["text"][:200] for the texts of the model
TextPrefix == [c \in Contents |-> take(TextOf(c), 200)]

\* A variant that hashes the whole text.
text_hash_whole(text) == <<"md5", TextOf(text)>>

\* hashlib.md5(result["text"][:200].encode()).hexdigest(): a digest that
\* tells the prefixes apart.
text_hash(text) == <<"md5", TextPrefix[text]>>

\* A variant that leaves the list in discovery order.
sort_results_not(results) == results

\* results.sort(key=lambda x: x["score"], reverse=True) (line 372)
sort_results(results) == sorted_desc(results)

\* The loop of lines 378-385 from candidate i on.
RECURSIVE unique_from(_, _, _, _, _)
unique_from(candidates, i, seen_texts, unique_results, max_results) ==
  IF i > Len(candidates) THEN unique_results
  ELSE IF text_hash(candidates[i].text) \notin seen_texts
  THEN LET more == Append(unique_results, candidates[i])
       IN  IF Len(more) >= max_results THEN more
           ELSE unique_from(candidates, i + 1,
                            seen_texts \cup {text_hash(candidates[i].text)},
                            more, max_results)
  ELSE unique_from(candidates, i + 1, seen_texts, unique_results, max_results)

\* Lines 372-387: sort, take the first max_results * 2, drop duplicates.
select_results(results, max_results) ==
  unique_from(take(sort_results(results), max_results * 2), 1, {}, << >>,
              max_results)

\* search_with_semantic on a chunk index whose keys come in the given order.
search_with_semantic(index, order, question, max_results) ==
  select_results(score_index(index, order, question), max_results)

\* max_results when the caller gives none (line 328)
DefaultMaxResults == 5

\* ------------------------------------------- ask_question_with_fallback
\* How a call of ask_ollama_with_timeout ends: a reply, asyncio.TimeoutError,
\* any other exception.
LlmOutcomes == {"ok", "timeout", "error"}
\* What search_internet_fallback returns: a text or None.
WebOutcomes == {"text", "none"}

\* A variant that goes to the model whatever the search returned.
after_search_to_model(search_results) == "docs_llm"

\* `if search_results:` (line 515)
after_search(search_results) == IF search_results # << >> THEN "docs_llm" ELSE "web"

\* Lines 541-570: the call with the documents' context.
after_docs_llm(o) ==
  IF o = "ok" THEN "return" ELSE IF o = "timeout" THEN "retry_llm" ELSE "web"

\* A variant that asks the bare question again until it is answered.
after_retry_llm_again(o) == IF o = "ok" THEN "return" ELSE "retry_llm"

\* Lines 556-568: the call without context after a timeout; the bare
\* except swallows whatever it raises.
after_retry_llm(o) == IF o = "ok" THEN "return" ELSE "web"

\* `if internet_info:` (line 577)
after_web(internet_info) == IF internet_info = "text" THEN "web_llm" ELSE "return"

Answer(source_type, success) == [source_type |-> source_type, success |-> success]

\* ------------------------------------------------------- snapshot file
NoFile == [kind |-> "absent"]
Malformed == [kind |-> "malformed"]
\* The file between open(CACHE_FILE, 'w') and the end of json.dump.
Partial == [kind |-> "partial"]

\* A JSON object: the set of its members, one <<name, value>> pair a key.
JsonObject(d) == {<<k, d[k]>> : k \in DOMAIN d}

\* The dict json.load makes of a JSON object.
JsonParse(o) == [k \in {p[1] : p \in o} |-> (CHOOSE p \in o : p[1] = k)[2]]

\* json.dump of the values of the two maps: a Document Record is an object
\* holding the metadata object, a chunk list an array of objects; strings
\* and integers are written as they are.
EncodeRecord(r) == JsonObject([r EXCEPT !.metadata = JsonObject(@)])
EncodeChunks(cs) == [i \in 1..Len(cs) |-> JsonObject(cs[i])]
DecodeRecord(o) == [JsonParse(o) EXCEPT !.metadata = JsonParse(@)]
DecodeChunks(a) == [i \in 1..Len(a) |-> JsonParse(a[i])]

\* json.dump of cache_data (lines 75-81)
json_dump(docs, chunks, now) ==
  [kind |-> "json",
   data |-> JsonObject(
     [documents |-> JsonObject([f \in DOMAIN docs |-> EncodeRecord(docs[f])]),
      chunks |-> JsonObject([f \in DOMAIN chunks |-> EncodeChunks(chunks[f])]),
      updated_at |-> now])]

\* json.load of a snapshot file that parses (line 63).
json_load(file) ==
  LET top == JsonParse(file.data)
      members(k) == JsonParse(top[k])
  IN  [k \in DOMAIN top |->
         IF k = "documents"
         THEN [f \in DOMAIN members(k) |-> DecodeRecord(members(k)[f])]
         ELSE IF k = "chunks"
         THEN [f \in DOMAIN members(k) |-> DecodeChunks(members(k)[f])]
         ELSE top[k]]

\* dict.get(key, default)
dict_get(d, key, default) == IF key \in DOMAIN d THEN d[key] ELSE default

\* A variant that looks the chunk lists up under a key save_cache does not
\* write.
load_cache_other_key(file) ==
  IF file.kind = "absent"
  THEN [documents_cache |-> EmptyMap, chunk_index |-> EmptyMap, status |-> "absent"]
  ELSE IF file.kind = "json"
  THEN [documents_cache |-> dict_get(json_load(file), "documents", EmptyMap),
        chunk_index |-> dict_get(json_load(file), "chunk_index", EmptyMap),
        status |-> "loaded"]
  ELSE [documents_cache |-> EmptyMap, chunk_index |-> EmptyMap, status |-> "reset"]

\* A variant without the try/except around json.load.
load_cache_unguarded(file) ==
  IF file.kind = "absent"
  THEN [documents_cache |-> EmptyMap, chunk_index |-> EmptyMap, status |-> "absent"]
  ELSE IF file.kind = "json"
  THEN [documents_cache |-> dict_get(json_load(file), "documents", EmptyMap),
        chunk_index |-> dict_get(json_load(file), "chunks", EmptyMap),
        status |-> "loaded"]
  ELSE [documents_cache |-> EmptyMap, chunk_index |-> EmptyMap, status |-> "raised"]

\* load_cache: what it leaves in the two maps for a given snapshot file.
load_cache(file) ==
  IF file.kind = "absent"
  THEN [documents_cache |-> EmptyMap, chunk_index |-> EmptyMap, status |-> "absent"]
  ELSE IF file.kind = "json"
  THEN [documents_cache |-> dict_get(json_load(file), "documents", EmptyMap),
        chunk_index |-> dict_get(json_load(file), "chunks", EmptyMap),
        status |-> "loaded"]
  ELSE [documents_cache |-> EmptyMap, chunk_index |-> EmptyMap, status |-> "reset"]

\* ---------------------------------------------------------------- state
VARIABLES
  running,          \* the process is alive
  passNo,           \* update_documents calls begun since the process started (0, 1, 2 = more)
  loaded,           \* how load_cache ended in this run of the process
  documents_cache,  \* self.documents_cache: filename -> Document Record
  chunk_index,      \* self.chunk_index: filename -> chunk list
  pc,               \* per caller: where it is in update_documents
  pdf_files,        \* per caller: the files of its listing not yet visited
  updated_count,    \* per caller: its updated_count
  folder,           \* PDF_FOLDER exists
  dir,              \* content of each PDF of PDF_FOLDER, 0 if absent
  cacheFile,        \* CACHE_FILE on disk
  saved,            \* the two maps save_cache wrote into CACHE_FILE, if it holds a whole dump
  clock,            \* datetime.now()
  listed,           \* per caller: the files its pass listed
  result,           \* per caller: what became of each file it visited
  atStart,          \* per caller: maps and snapshot file when its pass began
  saveCalls,        \* per caller: save_cache calls of its pass
  returned,         \* per caller: "normal"/"early"/"raised" right after it returned
  quiet,            \* completed passes in a row with no outside event (-1: event seen)
  at,               \* where the message handler is in ask_question_with_fallback
  direct,           \* search_with_semantic was called on its own, not by ask_question_with_fallback
  cur_question,         \* the question asked
  cur_max_results,      \* max_results of the search_with_semantic call
  cur_results,          \* `results` of search_with_semantic when its loops are done
  found,            \* what search_with_semantic returned
  calls,            \* the collaborators called so far for this question, in order
  answer,           \* source type and success flag returned for this question
  seen,             \* the pass under way when the loops of the search read chunk_index
  called,           \* the text function being applied on its own, "none" if none is
  args,             \* its arguments
  ret               \* what it returned, once it has

engine == <<running, passNo, loaded, documents_cache, chunk_index, pc, pdf_files,
            updated_count, folder, dir, cacheFile, saved, clock, listed, result, atStart,
            saveCalls, returned, quiet>>
asking == <<at, direct, cur_question, cur_max_results, cur_results, found, calls, answer, seen>>
applying == <<called, args, ret>>
vars == <<engine, asking, applying>>

memory == <<documents_cache, chunk_index>>
locals == <<pc, pdf_files, updated_count>>
world == <<folder, dir>>
ghost == <<listed, result, atStart, saveCalls>>
disk == <<cacheFile, saved>>

NoCall == << >>

\* No text function is being applied on its own.
ApplyIdle ==
  /\ called = "none"
  /\ args = NoCall
  /\ ret = NoCall

NoAnswer == [source_type |-> "none", success |-> FALSE]
NotSeen == [scanning |-> FALSE, indexed |-> {}]

\* No question is being handled.
HandlerIdle ==
  /\ at = "idle"
  /\ direct = FALSE
  /\ cur_question = << >>
  /\ cur_max_results = 0
  /\ cur_results = << >>
  /\ found = << >>
  /\ calls = << >>
  /\ answer = NoAnswer
  /\ seen = NotSeen

\* The handler's locals are gone.
HandlerReset ==
  /\ at' = "idle"
  /\ direct' = FALSE
  /\ cur_question' = << >>
  /\ cur_max_results' = 0
  /\ cur_results' = << >>
  /\ found' = << >>
  /\ calls' = << >>
  /\ answer' = NoAnswer
  /\ seen' = NotSeen

NotSaved == [whole |-> FALSE, documents_cache |-> EmptyMap, chunk_index |-> EmptyMap]

NoSnapshot == [documents_cache |-> EmptyMap, chunk_index |-> EmptyMap,
               cacheFile |-> NoFile]

\* Memory of a process that is not running.
Cleared ==
  /\ documents_cache' = EmptyMap
  /\ chunk_index' = EmptyMap
  /\ pc' = [t \in Procs |-> "idle"]
  /\ pdf_files' = [t \in Procs |-> << >>]
  /\ updated_count' = [t \in Procs |-> 0]
  /\ listed' = [t \in Procs |-> {}]
  /\ result' = [t \in Procs |-> EmptyMap]
  /\ atStart' = [t \in Procs |-> NoSnapshot]
  /\ saveCalls' = [t \in Procs |-> 0]
  /\ returned' = [t \in Procs |-> "none"]
  /\ passNo' = 0
  /\ quiet' = 0

\* The process is not running; the folder exists (line 38 creates it when
\* the module is imported) and holds no PDF yet; the snapshot file is absent
\* or is not a snapshot.
NotStarted ==
  /\ running = FALSE
  /\ passNo = 0
  /\ loaded = "none"
  /\ documents_cache = EmptyMap
  /\ chunk_index = EmptyMap
  /\ pc = [t \in Procs |-> "idle"]
  /\ pdf_files = [t \in Procs |-> << >>]
  /\ updated_count = [t \in Procs |-> 0]
  /\ folder = TRUE
  /\ dir = [f \in Files |-> 0]
  /\ cacheFile \in {NoFile, Malformed}
  /\ saved = NotSaved
  /\ clock = 0
  /\ listed = [t \in Procs |-> {}]
  /\ result = [t \in Procs |-> EmptyMap]
  /\ atStart = [t \in Procs |-> NoSnapshot]
  /\ saveCalls = [t \in Procs |-> 0]
  /\ returned = [t \in Procs |-> "none"]
  /\ quiet = 0
  /\ HandlerIdle

Init == NotStarted /\ ApplyIdle

\* An outside event ends the moment "right after update_documents returned":
\* the log of a pass that is over is dropped.
Forget ==
  /\ returned' = [t \in Procs |-> "none"]
  /\ listed' = [t \in Procs |-> IF pc[t] = "idle" THEN {} ELSE listed[t]]
  /\ result' = [t \in Procs |-> IF pc[t] = "idle" THEN EmptyMap ELSE result[t]]
  /\ atStart' = [t \in Procs |-> IF pc[t] = "idle" THEN NoSnapshot ELSE atStart[t]]
  /\ saveCalls' = [t \in Procs |-> IF pc[t] = "idle" THEN 0 ELSE saveCalls[t]]
  /\ quiet' = -1

\* --------------------------------------------------------- environment
\* A PDF is created or its content replaced.
WriteFile(f, c) ==
  /\ folder
  /\ dir[f] # c
  /\ dir' = [dir EXCEPT ![f] = c]
  /\ Forget
  /\ UNCHANGED <<running, passNo, loaded, memory, locals, folder, disk, clock>>
  /\ UNCHANGED <<asking, applying>>

\* A PDF is deleted.
DeleteFile(f) ==
  /\ dir[f] # 0
  /\ dir' = [dir EXCEPT ![f] = 0]
  /\ Forget
  /\ UNCHANGED <<running, passNo, loaded, memory, locals, folder, disk, clock>>
  /\ UNCHANGED <<asking, applying>>

\* The whole folder is removed.
RemoveFolder ==
  /\ folder
  /\ folder' = FALSE
  /\ dir' = [f \in Files |-> 0]
  /\ Forget
  /\ UNCHANGED <<running, passNo, loaded, memory, locals, disk, clock>>
  /\ UNCHANGED <<asking, applying>>

\* The process dies (kill, power loss) wherever it is.
Crash ==
  /\ running
  /\ running' = FALSE
  /\ loaded' = "none"
  /\ Cleared
  /\ HandlerReset
  /\ UNCHANGED <<world, disk, clock, applying>>

\* ------------------------------------------------------------- program
\* Importing the module (line 38: PDF_FOLDER.mkdir(exist_ok=True)) and
\* AdvancedPDFProcessor.__init__ up to and including load_cache.
Boot ==
  /\ ~running
  /\ LET r == load_cache(cacheFile)
     IN  /\ loaded' = r.status
         /\ running' = (r.status # "raised")
         /\ documents_cache' = r.documents_cache
         /\ chunk_index' = r.chunk_index
  /\ folder' = TRUE
  /\ UNCHANGED <<passNo, locals, dir, disk, clock, ghost, returned, quiet>>
  /\ UNCHANGED <<asking, applying>>

\* update_documents returns to its caller.
Return(t, how) ==
  /\ pc' = [pc EXCEPT ![t] = "idle"]
  /\ updated_count' = [updated_count EXCEPT ![t] = 0]
  /\ returned' = [returned EXCEPT ![t] = how]
  /\ quiet' = IF quiet = -1 \/ how # "normal" THEN -1
              ELSE IF quiet < 2 THEN quiet + 1 ELSE 2

\* update_documents, lines 266-275: the folder check, the listing, the
\* clear. __init__ calls it once; afterwards reload_documents does.
StartPass(t) ==
  /\ running
  /\ pc[t] = "idle"
  /\ passNo = 0 => t = 1
  /\ clock < MaxClock
  /\ clock' = clock + 1
  /\ passNo' = IF passNo < 2 THEN passNo + 1 ELSE 2
  /\ loaded' = IF passNo = 0 THEN loaded ELSE "none"
  /\ updated_count' = [updated_count EXCEPT ![t] = 0]
  /\ saveCalls' = [saveCalls EXCEPT ![t] = 0]
  /\ result' = [result EXCEPT ![t] = EmptyMap]
  /\ atStart' = [atStart EXCEPT ![t] =
                   [documents_cache |-> documents_cache,
                    chunk_index |-> chunk_index, cacheFile |-> cacheFile]]
  /\ chunk_index' = index_after_start(chunk_index, folder)
  /\ IF ~folder
     THEN /\ folder' = TRUE
          /\ listed' = [listed EXCEPT ![t] = {}]
          /\ pc' = pc
          /\ returned' = [returned EXCEPT ![t] = "early"]
          /\ quiet' = -1
          /\ UNCHANGED pdf_files
     ELSE /\ \E order \in Listings({f \in Files : dir[f] # 0}) :
               pdf_files' = [pdf_files EXCEPT ![t] = order]
          /\ listed' = [listed EXCEPT ![t] = {f \in Files : dir[f] # 0}]
          /\ pc' = [pc EXCEPT ![t] = "scan"]
          /\ returned' = [returned EXCEPT ![t] = "none"]
          /\ quiet' = IF quiet = -1 THEN 0 ELSE quiet
          /\ folder' = folder
  /\ UNCHANGED <<running, documents_cache, dir, disk>>
  /\ UNCHANGED <<asking, applying>>

\* One iteration of the for loop (lines 277-318), with one of the outcomes
\* outs.
ProcessFile(t, outs) ==
  /\ running
  /\ pc[t] = "scan"
  /\ pdf_files[t] # << >>
  /\ \E o \in outs :
     \E c2 \in IF o = "rewritten" THEN Contents \ {dir[Head(pdf_files[t])]}
                ELSE {dir[Head(pdf_files[t])]} :
       LET f == Head(pdf_files[t])
           r == process_file(documents_cache, chunk_index, f, dir[f], c2, o, clock)
       IN  /\ result' = [result EXCEPT ![t] =
                  Put(result[t], f, [outcome |-> r.outcome, matched |-> r.matched,
                                     hashed |-> IF o = "hash_raises" THEN 0 ELSE dir[f],
                                     textlen |-> r.textlen])]
           /\ dir' = [dir EXCEPT ![f] = c2]
           /\ documents_cache' = r.documents_cache
           /\ chunk_index' = r.chunk_index
           /\ IF FileHandler(r.outcome) = "continue"
              THEN /\ pdf_files' = [pdf_files EXCEPT ![t] = Tail(@)]
                   /\ updated_count' = [updated_count EXCEPT ![t] = @ + r.n]
                   /\ pc' = pc
                   /\ returned' = returned
                   /\ quiet' = IF o = "ok" THEN quiet ELSE -1
              ELSE /\ pdf_files' = [pdf_files EXCEPT ![t] = << >>]
                   /\ Return(t, "raised")
  /\ UNCHANGED <<running, passNo, loaded, folder, disk, clock, listed, atStart,
                 saveCalls>>
  /\ UNCHANGED <<asking, applying>>

\* After the loop (lines 320-326): call save_cache or return.
EndScan(t) ==
  /\ running
  /\ pc[t] = "scan"
  /\ pdf_files[t] = << >>
  /\ IF ShouldSave(updated_count[t])
     THEN /\ pc' = [pc EXCEPT ![t] = "save"]
          /\ saveCalls' = [saveCalls EXCEPT ![t] = @ + 1]
          /\ UNCHANGED <<returned, quiet, updated_count>>
     ELSE /\ Return(t, "normal")
          /\ UNCHANGED saveCalls
  /\ UNCHANGED <<running, passNo, loaded, memory, pdf_files, world,
                 disk, clock, listed, result, atStart>>
  /\ UNCHANGED <<asking, applying>>

\* save_cache, line 80: open(CACHE_FILE, 'w') empties the file, or raises
\* and leaves it alone.
SaveOpen(t) ==
  /\ running
  /\ pc[t] = "save"
  /\ \E ok \in BOOLEAN :
       IF ok
       THEN /\ cacheFile' = Partial
            /\ saved' = NotSaved
            /\ pc' = [pc EXCEPT ![t] = "dump"]
            /\ UNCHANGED <<returned, quiet, updated_count>>
       ELSE /\ UNCHANGED disk
            /\ Return(t, IF SaveHandler(TRUE) = "continue" THEN "normal" ELSE "raised")
  /\ UNCHANGED <<running, passNo, loaded, memory, pdf_files, world, clock, ghost>>
  /\ UNCHANGED <<asking, applying>>

\* save_cache, line 81: json.dump writes the snapshot out, or raises part
\* way (disk full) and leaves what it had written.
SaveDump(t) ==
  /\ running
  /\ pc[t] = "dump"
  /\ \E ok \in BOOLEAN :
       IF ok
       THEN /\ cacheFile' = json_dump(documents_cache, chunk_index, clock)
            /\ saved' = [whole |-> TRUE, documents_cache |-> documents_cache,
                         chunk_index |-> chunk_index]
            /\ Return(t, "normal")
       ELSE /\ cacheFile' = Partial
            /\ saved' = NotSaved
            /\ Return(t, IF SaveHandler(TRUE) = "continue" THEN "normal" ELSE "raised")
  /\ UNCHANGED <<running, passNo, loaded, memory, pdf_files, world, clock, ghost>>
  /\ UNCHANGED <<asking, applying>>

\* No pass is running.
Free == \A t \in Procs : pc[t] = "idle"

\* One caller at a time: reload_documents is not re-entered while a pass
\* runs. The folder changes between passes, or between the two reads a pass
\* makes of a file (ProcessFile, "rewritten"): any other change made while a
\* pass runs looks to it like a change made before or after it, or (a file
\* that vanished) like a read that raises.

Steps ==
  \/ \E f \in Files, c \in Contents : Free /\ WriteFile(f, c)
  \/ \E f \in Files : Free /\ DeleteFile(f)
  \/ Free /\ RemoveFolder
  \/ Crash
  \/ Boot
  \/ Free /\ StartPass(1)
  \/ EndScan(1)
  \/ SaveOpen(1)
  \/ SaveDump(1)

\* The bot takes messages once the constructor (lines 52-56: load_cache,
\* then the first update_documents) is done; later passes are those of
\* reload_documents.
Serving ==
  /\ running
  /\ passNo >= 1
  /\ passNo = 1 => \A t \in Procs : pc[t] = "idle"

\* --------------------------------------------------------------- handler
\* search_with_semantic is called on its own with a question and a limit.
SearchStart(q, m) ==
  /\ Serving
  /\ at = "idle"
  /\ at' = "score"
  /\ direct' = TRUE
  /\ cur_question' = q
  /\ cur_max_results' = m
  /\ UNCHANGED <<cur_results, found, calls, answer, seen>>
  /\ UNCHANGED <<engine, applying>>

\* ask_question_with_fallback is called with a question (line 766); it
\* calls search_with_semantic with the default limit (line 513).
AskStart(q) ==
  /\ Serving
  /\ at = "idle"
  /\ at' = "score"
  /\ direct' = FALSE
  /\ cur_question' = q
  /\ cur_max_results' = DefaultMaxResults
  /\ UNCHANGED <<cur_results, found, calls, answer, seen>>
  /\ UNCHANGED <<engine, applying>>

\* search_with_semantic, lines 330-369: the loops over chunk_index. A dict
\* yields its keys in insertion order, which the model does not keep: every
\* order is tried.
SearchScore ==
  /\ at = "score"
  /\ \E order \in Listings(DOMAIN chunk_index) :
       cur_results' = score_index(chunk_index, order, cur_question)
  /\ seen' = [scanning |-> \E t \in Procs : pc[t] = "scan",
              indexed |-> UNION {{f \in DOMAIN result[t] : result[t][f].outcome = "indexed"} :
                                 t \in {u \in Procs : pc[u] = "scan"}}]
  /\ calls' = Append(calls, "search")
  /\ at' = "select"
  /\ UNCHANGED <<direct, cur_question, cur_max_results, found, answer>>
  /\ UNCHANGED <<engine, applying>>

\* Line 335 while the worker thread clears or fills chunk_index: the dict
\* changes size under the loop and the iteration raises RuntimeError, which
\* leaves search_with_semantic.
SearchRaises ==
  /\ at = "score"
  /\ \E t \in Procs : pc[t] = "scan"
  /\ at' = "return"
  /\ answer' = Answer("raised", FALSE)
  /\ calls' = Append(calls, "search")
  /\ UNCHANGED <<direct, cur_question, cur_max_results, cur_results, found, seen>>
  /\ UNCHANGED <<engine, applying>>

\* search_with_semantic, lines 372-387, and the branch of the caller.
SearchSelect ==
  /\ at = "select"
  /\ found' = select_results(cur_results, cur_max_results)
  /\ at' = IF direct THEN "return" ELSE after_search(found')
  /\ UNCHANGED <<direct, cur_question, cur_max_results, cur_results, calls, answer, seen>>
  /\ UNCHANGED <<engine, applying>>

\* Lines 541-570: the language model is asked with the documents' context.
AskDocs ==
  /\ at = "docs_llm"
  /\ \E o \in LlmOutcomes :
       /\ at' = after_docs_llm(o)
       /\ answer' = IF o = "ok" THEN Answer("documents", TRUE) ELSE answer
  /\ calls' = Append(calls, "llm_docs")
  /\ UNCHANGED <<direct, cur_question, cur_max_results, cur_results, found, seen>>
  /\ UNCHANGED <<engine, applying>>

\* Lines 556-568: after a timeout the model is asked the bare question.
AskRetry ==
  /\ at = "retry_llm"
  /\ \E o \in LlmOutcomes :
       /\ at' = after_retry_llm(o)
       /\ answer' = IF o = "ok" THEN Answer("documents_timeout", TRUE) ELSE answer
  /\ calls' = Append(calls, "llm_simple")
  /\ UNCHANGED <<direct, cur_question, cur_max_results, cur_results, found, seen>>
  /\ UNCHANGED <<engine, applying>>

\* Line 575: search_internet_fallback; lines 610-612 when it found nothing.
AskWeb ==
  /\ at = "web"
  /\ \E internet_info \in WebOutcomes :
       /\ at' = after_web(internet_info)
       /\ answer' = IF internet_info = "none" THEN Answer("not_found", FALSE) ELSE answer
  /\ calls' = Append(calls, "web")
  /\ UNCHANGED <<direct, cur_question, cur_max_results, cur_results, found, seen>>
  /\ UNCHANGED <<engine, applying>>

\* Lines 593-608: the model is asked with the text from the web; if the
\* call raises, the text itself is the answer.
AskWebLlm ==
  /\ at = "web_llm"
  /\ \E o \in LlmOutcomes :
       answer' = IF o = "ok" THEN Answer("internet", TRUE) ELSE Answer("internet_raw", TRUE)
  /\ at' = "return"
  /\ calls' = Append(calls, "llm_web")
  /\ UNCHANGED <<direct, cur_question, cur_max_results, cur_results, found, seen>>
  /\ UNCHANGED <<engine, applying>>

\* The call returns to its caller.
HandlerReturn ==
  /\ at = "return"
  /\ HandlerReset
  /\ UNCHANGED <<engine, applying>>

\* ----------------------------------------------------- specifications
\* Every file stays as it is while the loop works on it.
Next == Steps \/ ProcessFile(1, StableOutcomes)

Spec == Init /\ [][Next]_vars

\* A file may also be replaced between the two reads of one iteration.
NextRace == Steps \/ ProcessFile(1, Outcomes)

SpecRace == Init /\ [][NextRace]_vars

\* The question a search is tried with while the folder is indexed:
\* "Steel pipe ISO 9".
ServeQuestions == {q \in Questions : Len(q) = 16}

\* Searches arrive while update_documents runs in a worker thread of the
\* executor (reload_documents, lines 723-729).
NextServe ==
  \/ Next
  \/ \E q \in ServeQuestions : SearchStart(q, DefaultMaxResults)
  \/ SearchScore
  \/ SearchRaises
  \/ SearchSelect
  \/ HandlerReturn

SpecServe == Init /\ [][NextServe]_vars

\* The chunk of page p of file f when the page has the text of content c.
ChunkOf(c, f, p) ==
  [text |-> c, page |-> p, source |-> f, chunk_type |-> "page_section",
   keywords |-> Keywords[c]]

\* The chunk lists a file of up to MaxChunks pages can have.
ChunkLists(f) ==
  UNION {{[p \in 1..n |-> ChunkOf(cs[p], f, p)] : cs \in [1..n -> Contents]} :
         n \in 1..MaxChunks}

\* The chunk indexes a search is tried on: any of the files, each with any
\* of its chunk lists.
SearchIndexes ==
  UNION {{index \in [S -> UNION {ChunkLists(f) : f \in S}] :
            \A f \in S : index[f] \in ChunkLists(f)} : S \in SUBSET SearchFiles}

\* The Document Record that goes with a chunk list.
RecordOf(chunks) ==
  [file_hash |-> calculate_file_hash(chunks[1].text),
   metadata |-> [pages |-> Len(chunks), extraction_method |-> "pdfplumber"],
   text_preview |-> chunks[1].text,
   chunk_count |-> Len(chunks),
   processed_at |-> 0,
   file_size |-> FileSize(chunks[1].text)]

\* The process has started from a snapshot and answers questions; no pass
\* is running.
InitAsk ==
  /\ running = TRUE
  /\ passNo = 1
  /\ loaded = "none"
  /\ chunk_index \in SearchIndexes
  /\ documents_cache = [f \in DOMAIN chunk_index |-> RecordOf(chunk_index[f])]
  /\ pc = [t \in Procs |-> "idle"]
  /\ pdf_files = [t \in Procs |-> << >>]
  /\ updated_count = [t \in Procs |-> 0]
  /\ folder = TRUE
  /\ dir = [f \in Files |-> 0]
  /\ cacheFile = json_dump(documents_cache, chunk_index, 0)
  /\ saved = [whole |-> TRUE, documents_cache |-> documents_cache,
              chunk_index |-> chunk_index]
  /\ clock = 0
  /\ listed = [t \in Procs |-> {}]
  /\ result = [t \in Procs |-> EmptyMap]
  /\ atStart = [t \in Procs |-> NoSnapshot]
  /\ saveCalls = [t \in Procs |-> 0]
  /\ returned = [t \in Procs |-> "none"]
  /\ quiet = -1
  /\ HandlerIdle
  /\ ApplyIdle

NextAsk ==
  \/ \E q \in Questions, m \in 1..MaxResults : SearchStart(q, m)
  \/ \E q \in Questions : AskStart(q)
  \/ SearchScore
  \/ SearchSelect
  \/ AskDocs
  \/ AskRetry
  \/ AskWeb
  \/ AskWebLlm
  \/ HandlerReturn

SpecAsk == InitAsk /\ [][NextAsk]_vars

\* ------------------------------------------------------------ properties
Entry(m, k) == IF k \in DOMAIN m THEN <<m[k]>> ELSE << >>

Indexed(t) == {f \in DOMAIN result[t] : result[t][f].outcome = "indexed"}

\* Document Records and snapshot file with their timestamp fields blanked.
NormDocs(docs) == [f \in DOMAIN docs |-> [docs[f] EXCEPT !.processed_at = 0]]
NormFile(file) ==
  IF file.kind = "json"
  THEN [kind |-> "json", documents |-> NormDocs(json_load(file).documents),
        chunks |-> json_load(file).chunks]
  ELSE file

\* C1: a file whose Document Record already holds the file's current
\* fingerprint is skipped by the pass: not extracted or segmented again,
\* its record not rewritten.
C1_UnchangedFileSkipped ==
  \A t \in Procs : \A f \in DOMAIN result[t] :
    result[t][f].matched => result[t][f].outcome = "skipped"

\* C2: right after update_documents has returned, every PDF that is present
\* with the fingerprint its Document Record holds has its chunk list in
\* chunk_index.
C2_UnchangedKeepsChunks ==
  \A t \in Procs : returned[t] = "normal" =>
    \A f \in Files :
      (/\ dir[f] # 0
       /\ f \in DOMAIN documents_cache
       /\ documents_cache[f].file_hash = calculate_file_hash(dir[f]))
      => f \in DOMAIN chunk_index

\* C3: a file whose reprocessing failed in the pass (an error, or unusable
\* text) has after the pass the Document Record and the chunk_index entry it
\* had before the pass.
C3_FailureLeavesEntries ==
  \A t \in Procs : returned[t] = "normal" =>
    \A f \in DOMAIN result[t] :
      result[t][f].outcome \in {"error", "unusable"} =>
        /\ Entry(documents_cache, f) = Entry(atStart[t].documents_cache, f)
        /\ Entry(chunk_index, f) = Entry(atStart[t].chunk_index, f)

\* C4: a saved snapshot has the same filenames in its 'chunks' map and in
\* its 'documents' map.
C4_SnapshotKeysAgree ==
  cacheFile.kind = "json" =>
    DOMAIN json_load(cacheFile).chunks = DOMAIN json_load(cacheFile).documents

\* C5: right after a pass that scanned the folder, no Document Record is
\* left for a file that is not in the folder.
C5_DeletedRecordRemoved ==
  \A t \in Procs : returned[t] = "normal" =>
    \A f \in Files : dir[f] = 0 => f \notin DOMAIN documents_cache

\* C6: when the process dies inside save_cache while the snapshot file held
\* a complete snapshot, the file afterwards holds that snapshot or the new
\* one.
C6_CrashKeepsSnapshot ==
  [][\A t \in Procs :
       (/\ running /\ ~running'
        /\ pc[t] \in {"save", "dump"}
        /\ atStart[t].cacheFile.kind = "json")
       => (cacheFile' = atStart[t].cacheFile \/ cacheFile'.kind = "json")]_vars

\* C7: load_cache never raises; after it met a snapshot file it could not
\* parse both maps are empty, and the update_documents that follows visits
\* every PDF of the folder and skips none as unchanged.
C7_CorruptCacheRecovered ==
  /\ loaded # "raised"
  /\ (loaded = "reset" /\ running /\ passNo = 0) =>
       (documents_cache = EmptyMap /\ chunk_index = EmptyMap)
  /\ (loaded = "reset" /\ returned[1] = "normal") =>
       \A f \in listed[1] :
         f \in DOMAIN result[1] /\ result[1][f].outcome # "skipped"

C7_Witness ==
  /\ loaded = "reset"
  /\ returned[1] = "normal"
  /\ listed[1] = Files
  /\ Indexed(1) = Files

\* C8: when two passes complete one after the other with nothing happening
\* to the files (no change, no failed read) since the first began, and the
\* first left a complete snapshot file, the maps and the snapshot file after
\* the second equal those after the first up to timestamps.
C8_SecondPassChangesNothing ==
  \A t \in Procs :
    (returned[t] = "normal" /\ quiet = 2 /\ atStart[t].cacheFile.kind = "json") =>
    /\ NormDocs(documents_cache) = NormDocs(atStart[t].documents_cache)
    /\ chunk_index = atStart[t].chunk_index
    /\ NormFile(cacheFile) = NormFile(atStart[t].cacheFile)

\* C9: update_documents never leaves by an exception, and when it has
\* returned every file it listed has been visited, whatever failed for the
\* other files or for save_cache.
C9_PassCompletes ==
  \A t \in Procs :
    /\ returned[t] # "raised"
    /\ returned[t] = "normal" => DOMAIN result[t] = listed[t]

C9_Witness ==
  /\ returned[1] = "normal"
  /\ \E f, g \in listed[1] :
       /\ result[1][f].outcome = "error"
       /\ result[1][g].outcome = "indexed"
  /\ saveCalls[1] = 1
  /\ cacheFile.kind = "partial"

\* C10: a pass calls save_cache at most once, only after the last file of
\* its listing has been visited, and exactly when it indexed a file.
C10_SaveOncePerPass ==
  \A t \in Procs :
    /\ saveCalls[t] <= 1
    /\ pc[t] \in {"save", "dump"} =>
         (pdf_files[t] = << >> /\ DOMAIN result[t] = listed[t])
    /\ returned[t] = "normal" =>
         saveCalls[t] = (IF Indexed(t) # {} THEN 1 ELSE 0)

C10_Witness ==
  /\ returned[1] = "normal"
  /\ saveCalls[1] = 1
  /\ listed[1] = Files
  /\ Cardinality(Indexed(1)) = 1
  /\ cacheFile.kind = "json"

\* The chunk list the segmenter makes of content c of file f.
ChunksOf(c, f) == chunk_text_intelligently(extract_text_advanced(c, "ok").text, f)

\* C11: a Document Record's file_hash is the fingerprint of the content the
\* record was made from (the content whose text and size it holds), and a
\* chunk_index entry of that filename is the chunk list of that content.
C11_RecordMatchesContent ==
  \A f \in DOMAIN documents_cache :
    \E c \in Contents :
      /\ documents_cache[f].file_hash = calculate_file_hash(c)
      /\ documents_cache[f].text_preview = c
      /\ documents_cache[f].file_size = FileSize(c)
      /\ f \in DOMAIN chunk_index => chunk_index[f] = ChunksOf(c, f)

\* The file's fingerprint differs from the one in the record it had when
\* the pass began.
ChangedFile(t, f) ==
  /\ dir[f] # 0
  /\ f \in DOMAIN atStart[t].documents_cache
  /\ atStart[t].documents_cache[f].file_hash # calculate_file_hash(dir[f])

\* The pass has put a new record and a new chunk entry for f.
Replaced(t, f) ==
  /\ result[t][f].outcome = "indexed"
  /\ f \in DOMAIN documents_cache
  /\ documents_cache[f].file_hash = calculate_file_hash(dir[f])
  /\ documents_cache[f].processed_at = clock
  /\ f \in DOMAIN chunk_index
  /\ chunk_index[f] = ChunksOf(dir[f], f)

C13_ShortTextLeftAlone ==
  \A t \in Procs :
    /\ \A f \in DOMAIN result[t] :
         (result[t][f].textlen >= 0 /\ result[t][f].textlen <= 100) =>
           /\ result[t][f].outcome = "unusable"
           /\ Entry(documents_cache, f) = Entry(atStart[t].documents_cache, f)
           /\ f \notin DOMAIN chunk_index
    /\ pc[t] = "scan" => updated_count[t] = Cardinality(Indexed(t))
    /\ returned[t] = "normal" => DOMAIN result[t] = listed[t]

C13_Witness ==
  /\ returned[1] = "normal"
  /\ \E f, g \in DOMAIN result[1] :
       /\ result[1][f].textlen = 100
       /\ f \in DOMAIN documents_cache
       /\ result[1][g].outcome = "indexed"

\* C16: a call that finds the folder missing creates it and returns with
\* both maps and the snapshot file as they were, nothing listed, visited or
\* saved.
C16_MissingFolderNoEffect ==
  \A t \in Procs : returned[t] = "early" =>
    /\ folder
    /\ pc[t] = "idle"
    /\ documents_cache = atStart[t].documents_cache
    /\ chunk_index = atStart[t].chunk_index
    /\ cacheFile = atStart[t].cacheFile
    /\ listed[t] = {} /\ result[t] = EmptyMap /\ saveCalls[t] = 0

C16_Witness ==
  /\ returned[1] = "early"
  /\ chunk_index # EmptyMap
  /\ documents_cache # EmptyMap

\* C14: load_cache of a snapshot file that a save_cache call wrote in full
\* leaves in documents_cache and chunk_index the values the two maps had
\* when that save_cache ran.
C14_SaveLoadRoundTrip ==
  (running /\ passNo = 0 /\ loaded = "loaded") =>
    /\ saved.whole
    /\ documents_cache = saved.documents_cache
    /\ chunk_index = saved.chunk_index

C14_Witness ==
  /\ running /\ passNo = 0 /\ loaded = "loaded"
  /\ Cardinality(DOMAIN documents_cache) = 2
  /\ chunk_index # EmptyMap
  /\ DOMAIN chunk_index # DOMAIN documents_cache

\* C17: in ask_question_with_fallback the web search is a fallback only.
\* It is called at most once for a question; when the document search
\* returned an empty list it is the call right after the search, before any
\* call of the language model, and the handler returns with exactly one web
\* search made; when the call of the language model with the documents'
\* context succeeded (the answer is of type "documents") no web search was
\* made.
LlmCalls == {"llm_docs", "llm_simple", "llm_web"}
WebCalls == {i \in DOMAIN calls : calls[i] = "web"}
Searched == at \notin {"idle", "score", "select"}

C17_WebSearchIsFallback ==
  ~direct =>
    /\ Cardinality(WebCalls) <= 1
    /\ (Searched /\ found = << >>) =>
         /\ \A i \in DOMAIN calls : calls[i] \in LlmCalls => \E j \in WebCalls : j < i
         /\ at # "web" => (Len(calls) >= 2 /\ calls[2] = "web")
         /\ at = "return" => Cardinality(WebCalls) = 1
    /\ answer.source_type = "documents" => WebCalls = {}

C17_Witness ==
  /\ ~direct /\ at = "return" /\ found = << >>
  /\ calls = <<"search", "web", "llm_web">>
  /\ answer = Answer("internet", TRUE)

\* C18: search_with_semantic never returns two results whose texts have
\* the same first 200 characters.
C18_NoTwoWithSamePrefix ==
  \A i, j \in DOMAIN found :
    i # j => take(TextOf(found[i].text), 200) # take(TextOf(found[j].text), 200)

C18_Witness ==
  /\ at = "return" /\ direct
  /\ Len(found) = 2
  /\ Len(cur_results) <= 2 * cur_max_results
  /\ \E i, j \in DOMAIN cur_results :
       /\ cur_results[i].text # cur_results[j].text
       /\ take(TextOf(cur_results[i].text), 200) = take(TextOf(cur_results[j].text), 200)

\* The place of entry i of rs in the list sorted by score descending with
\* ties in the order of rs.
rank(rs, i) ==
  1 + Cardinality({j \in DOMAIN rs :
                     \/ rs[j].score > rs[i].score
                     \/ rs[j].score = rs[i].score /\ j < i})
Ranked(rs) == [k \in DOMAIN rs |-> rs[CHOOSE i \in DOMAIN rs : rank(rs, i) = k]]
\* The first 2 * m candidates.
Window(rs, m) == take(Ranked(rs), 2 * m)
\* The candidates whose 200-character prefix no earlier candidate has, and
\* the first m of them.
Firsts(w) ==
  {k \in DOMAIN w : \A j \in 1..(k - 1) : TextPrefix[w[j].text] # TextPrefix[w[k].text]}
Kept(w, m) == {k \in Firsts(w) : Cardinality({j \in Firsts(w) : j < k}) < m}
Selected(w, m, out) ==
  /\ Len(out) = Cardinality(Kept(w, m))
  /\ \A k \in Kept(w, m) : out[Cardinality({j \in Kept(w, m) : j <= k})] = w[k]

\* C19: search_with_semantic returns the first max_results entries,
\* skipping entries whose 200-character prefix an earlier candidate has, of
\* the first 2 * max_results candidates of `results` (the chunks with a
\* positive score in discovery order) sorted by score descending with ties
\* in discovery order; so at most max_results results, all with a positive
\* score, in non-increasing order of score.
C19_SelectedResults ==
  Searched =>
    /\ Selected(Window(cur_results, cur_max_results), cur_max_results, found)
    /\ Len(found) <= cur_max_results
    /\ \A i \in DOMAIN found : found[i].score > 0
    /\ \A i, j \in DOMAIN found : i < j => found[i].score >= found[j].score

C19_Witness ==
  /\ at = "return" /\ direct
  /\ cur_max_results = 2
  /\ Len(cur_results) > 2 * cur_max_results
  /\ Len(found) = 1
  /\ \E i \in DOMAIN cur_results :
       TextPrefix[cur_results[i].text] # TextPrefix[found[1].text]
  /\ \E i, j \in DOMAIN cur_results :
       i < j /\ cur_results[i].score < cur_results[j].score

\* The four terms of the score of a chunk of file f for question q.
ScoreTerms(f, chunk, q) ==
  2 * Cardinality(QuestionWords[q] \cap WordsIn[chunk.text])
    + 3 * Cardinality({i \in DOMAIN chunk.keywords :
                         split_colon_first(chunk.keywords[i]) \in QuestionWords[q]})
    + (IF \E w \in QuestionWords[q] : str_in(w, LoweredName[f]) THEN 5 ELSE 0)
    + (IF StandardNumber[f] # << >> /\ str_in(StandardNumber[f], q) THEN 10 ELSE 0)

\* C20: the score of a chunk is 2 for every question word that is in the
\* lowercased chunk text, plus 3 for every keyword of the chunk whose word
\* is a question word, plus 5 if a question word is in the lowercased file
\* name, plus 10 if the file name's standard number is in the question as
\* asked; the chunks with a positive score are the entries of `results`.
C20_ScoreIsSumOfTerms ==
  at = "select" =>
    /\ \A k \in DOMAIN cur_results :
         /\ cur_results[k].source \in DOMAIN chunk_index
         /\ cur_results[k].page \in DOMAIN chunk_index[cur_results[k].source]
         /\ cur_results[k].text =
              chunk_index[cur_results[k].source][cur_results[k].page].text
         /\ cur_results[k].score =
              ScoreTerms(cur_results[k].source,
                         chunk_index[cur_results[k].source][cur_results[k].page],
                         cur_question)
    /\ \A f \in DOMAIN chunk_index : \A p \in DOMAIN chunk_index[f] :
         ScoreTerms(f, chunk_index[f][p], cur_question) > 0 =>
           \E k \in DOMAIN cur_results :
             cur_results[k].source = f /\ cur_results[k].page = p

C20_Witness ==
  /\ at = "select"
  /\ \E k \in DOMAIN cur_results :
       /\ cur_results[k].score = 25
       /\ cur_results[k].source = "ISO 9 steel.pdf"
  /\ \E k \in DOMAIN cur_results :
       /\ cur_results[k].score = 5
       /\ cur_results[k].source = "a.pdf"

\* C15: update_documents clears chunk_index and then puts the files back
\* one by one, so a search whose loops run while a pass is under way finds
\* chunks only of the files that pass has indexed so far; it can return
\* fewer results than the same search before the pass and after it.
C15_SearchSeesOnlyReindexed ==
  seen.scanning =>
    \A k \in DOMAIN cur_results : cur_results[k].source \in seen.indexed

C15_Witness ==
  /\ at = "return" /\ direct /\ seen.scanning
  /\ answer = NoAnswer
  /\ pc[1] = "idle" /\ returned[1] = "normal"
  /\ \E f \in DOMAIN atStart[1].chunk_index \cap DOMAIN chunk_index :
       /\ f \notin seen.indexed
       /\ atStart[1].chunk_index[f] = chunk_index[f]
  /\ \A order \in Listings(DOMAIN atStart[1].chunk_index) :
       Len(found) < Len(search_with_semantic(atStart[1].chunk_index, order,
                                             cur_question, cur_max_results))
  /\ \A order \in Listings(DOMAIN chunk_index) :
       Len(found) < Len(search_with_semantic(chunk_index, order,
                                             cur_question, cur_max_results))

\* The words (runs of letters) of the lowercased texts of the model.
TextTokens == [c \in Contents |-> Range(re_findall_words(LoweredText[c], 1))]
\* The chunks of the index as <<file, position>> pairs.
IndexedChunks == {fp \in (DOMAIN chunk_index) \X (1..MaxChunks) :
                    fp[2] \in DOMAIN chunk_index[fp[1]]}
Returned(fp) ==
  \E k \in DOMAIN found :
    /\ found[k].source = fp[1]
    /\ found[k].page = chunk_index[fp[1]][fp[2]].page
    /\ found[k].text = chunk_index[fp[1]][fp[2]].text
    /\ found[k].score >= 2
Candidate(fp) ==
  \E k \in DOMAIN cur_results :
    /\ cur_results[k].source = fp[1]
    /\ cur_results[k].page = chunk_index[fp[1]][fp[2]].page
    /\ cur_results[k].text = chunk_index[fp[1]][fp[2]].text
    /\ cur_results[k].score >= 2
SharesWord(fp) ==
  QuestionWords[cur_question] \cap TextTokens[chunk_index[fp[1]][fp[2]].text] # {}

\* C21 as stated: a chunk whose text has a word of the question is
\* returned with a score of at least 2, and a question that shares no word
\* with the text of any indexed chunk gets the empty list.
C21_WordMatchReturned ==
  Searched =>
    /\ \A fp \in IndexedChunks : SharesWord(fp) => Returned(fp)
    /\ (\A fp \in IndexedChunks : ~SharesWord(fp)) => found = << >>

\* What a question has in common with a chunk of file f besides the words
\* of its text: a word inside a word of the text, a keyword, a word inside
\* the file name, the standard number of the file name.
NoTerm(fp) ==
  LET f == fp[1]
      chunk == chunk_index[fp[1]][fp[2]]
  IN  /\ QuestionWords[cur_question] \cap WordsIn[chunk.text] = {}
      /\ \A i \in DOMAIN chunk.keywords :
           split_colon_first(chunk.keywords[i]) \notin QuestionWords[cur_question]
      /\ \A w \in QuestionWords[cur_question] : ~str_in(w, LoweredName[f])
      /\ StandardNumber[f] = << >> \/ ~str_in(StandardNumber[f], cur_question)
Alone(fp) ==
  \A k \in DOMAIN cur_results :
    (cur_results[k].source # fp[1] \/ cur_results[k].page # fp[2]) =>
      TextPrefix[cur_results[k].text] # TextPrefix[chunk_index[fp[1]][fp[2]].text]

\* C21 amended: a chunk whose text has a word of the question is a
\* candidate with a score of at least 2, and it is returned when the
\* candidates are no more than max_results and no other candidate has its
\* first 200 characters; a question that has none of the four terms of the
\* score with any indexed chunk gets the empty list.
C21_WordMatchIsCandidate ==
  Searched =>
    /\ \A fp \in IndexedChunks : SharesWord(fp) =>
         /\ Candidate(fp)
         /\ (Len(cur_results) <= cur_max_results /\ Alone(fp)) => Returned(fp)
    /\ (\A fp \in IndexedChunks : NoTerm(fp)) => found = << >>

C21_Witness ==
  /\ at = "return" /\ direct
  /\ \E fp \in IndexedChunks : SharesWord(fp) /\ Returned(fp)
  /\ \E fp \in IndexedChunks : SharesWord(fp) /\ Candidate(fp) /\ ~Returned(fp)

\* ------------------------------------------- extraction, page by page
\* extract_text_advanced and chunk_text_intelligently applied on their own
\* to a PDF given by its pages. A page is what extract_text() gives for it,
\* as the paragraphs that re.split(r'\n\s*\n') finds in it, each by its
\* number of characters; <<0>> is the empty string. A paragraph of more
\* than 0 characters holds a character that is not whitespace.
MaxPages == 2
MaxParas == 3
PageChunkLimit == 1500
SentenceChunkLimit == 1000

ParaLens == {0, 700, 798, 2000}
SentenceLens == {0, 499, 500, 1200}

Pieces(lens, m) == UNION {[1..n -> lens] : n \in 1..m}

Pdfs(page_texts) == UNION {[1..n -> page_texts] : n \in 0..MaxPages}

\* What can happen to one page in the pdfplumber loop: extract_text raises
\* (line 114), extract_tables raises (line 121), page.images raises
\* (line 137), or nothing raises.
PageOutcomes == {"ok", "text_raises", "tables_raise", "images_raise"}

\* The points where each strategy may raise: pdfplumber.open or pdf.pages
\* (lines 106-108), a page, leaving the with block (line 106); open,
\* PdfReader or reader.pages (lines 150-153), page.extract_text (line 157).
Faults(n) ==
  [pdfplumber_open : {"ok", "raises"},
   pdfplumber_pages : [1..n -> PageOutcomes],
   pdfplumber_exit : {"ok", "raises"},
   pypdf2_open : {"ok", "raises"},
   pypdf2_pages : [1..n -> {"ok", "text_raises"}]]

\* `text`: the part before the first page label, by its sentences, and the
\* labelled blocks, each with the N of its "Page N" label.
NoText == [head |-> << >>, blocks |-> << >>]

\* Lines 115-116 and 158-159: a page with text adds its label and its text.
page_block(i, page_text) ==
  IF page_text # <<0>> THEN << [label |-> i, paras |-> page_text] >> ELSE << >>

\* Lines 111-143 from page i on: a page whose handling raises is logged and
\* skipped (line 141-143); what was added to text before stays.
RECURSIVE pdfplumber_pages(_, _, _, _)
pdfplumber_pages(pages, outcomes, i, blocks) ==
  IF i > Len(pages) THEN blocks
  ELSE pdfplumber_pages(pages, outcomes, i + 1,
         IF outcomes[i] = "text_raises" THEN blocks
         ELSE blocks \o page_block(i, pages[i]))

\* Lines 105-148: the structure-aware strategy; raised says whether control
\* reaches the handler of line 147.
pdfplumber_strategy(pages, faults) ==
  IF faults.pdfplumber_open = "raises"
  THEN [raised |-> TRUE, blocks |-> << >>, metadata |-> UnknownMetadata]
  ELSE [raised |-> faults.pdfplumber_exit = "raises",
        blocks |-> pdfplumber_pages(pages, faults.pdfplumber_pages, 1, << >>),
        metadata |-> [pages |-> Len(pages), extraction_method |-> "pdfplumber"]]

RECURSIVE pypdf2_pages(_, _, _)
pypdf2_pages(pages, i, blocks) ==
  IF i > Len(pages) THEN blocks
  ELSE pypdf2_pages(pages, i + 1, blocks \o page_block(i, pages[i]))

\* Lines 150-165: the plain-text strategy goes on with the text and the
\* metadata the first one left; no page has a handler of its own.
pypdf2_strategy(pages, faults, blocks, metadata) ==
  IF faults.pypdf2_open = "raises"
  THEN [raised |-> TRUE, blocks |-> blocks, metadata |-> metadata]
  ELSE [raised |-> \E i \in 1..Len(pages) : faults.pypdf2_pages[i] = "text_raises",
        blocks |-> pypdf2_pages(pages, 1, blocks),
        metadata |-> [pages |-> Len(pages), extraction_method |-> "pypdf2"]]

\* extract_text_advanced (lines 94-165) on the pages of a PDF: (text,
\* metadata), and the strategies that were run.
extract_pages(pages, faults) ==
  LET first == pdfplumber_strategy(pages, faults)
      second == pypdf2_strategy(pages, faults, first.blocks, first.metadata)
  IN  IF ~first.raised
      THEN [text |-> [head |-> << >>, blocks |-> first.blocks],
            metadata |-> first.metadata, strategies |-> <<"pdfplumber">>]
      ELSE IF ~second.raised
      THEN [text |-> [head |-> << >>, blocks |-> second.blocks],
            metadata |-> second.metadata, strategies |-> <<"pdfplumber", "pypdf2">>]
      ELSE [text |-> NoText, metadata |-> second.metadata,
            strategies |-> <<"pdfplumber", "pypdf2">>]

\* len() of a chunk under construction: each piece it holds and the sep
\* characters added after it (lines 193 and 219).
RECURSIVE joined_len(_, _)
joined_len(pieces, sep) ==
  IF pieces = << >> THEN 0
  ELSE Head(pieces) + sep + joined_len(Tail(pieces), sep)

\* current_chunk.strip() is not empty.
has_text(pieces) == \E k \in 1..Len(pieces) : pieces[k] > 0

\* The chunk the loops append; its text is given by the pieces it holds.
new_chunk(current_chunk, page, filename, chunk_type) ==
  IF has_text(current_chunk)
  THEN << [text |-> current_chunk, page |-> page, source |-> filename,
           chunk_type |-> chunk_type] >>
  ELSE << >>

\* The loops with a test on the piece alone.
RECURSIVE fill_chunks_by_piece(_, _, _, _, _, _, _)
fill_chunks_by_piece(pieces, current_chunk, limit, sep, page, filename, chunk_type) ==
  IF pieces = << >>
  THEN new_chunk(current_chunk, page, filename, chunk_type)
  ELSE IF Head(pieces) < limit
  THEN fill_chunks_by_piece(Tail(pieces), Append(current_chunk, Head(pieces)),
                            limit, sep, page, filename, chunk_type)
  ELSE new_chunk(current_chunk, page, filename, chunk_type)
       \o fill_chunks_by_piece(Tail(pieces), <<Head(pieces)>>,
                               limit, sep, page, filename, chunk_type)

\* Lines 190-210 and 216-229: the loop over the paragraphs of a page
\* (limit 1500, separator "\n\n", page i, "page_section") and over the
\* sentences of a text (limit 1000, separator " ", page 0, "semantic").
RECURSIVE fill_chunks(_, _, _, _, _, _, _)
fill_chunks(pieces, current_chunk, limit, sep, page, filename, chunk_type) ==
  IF pieces = << >>
  THEN new_chunk(current_chunk, page, filename, chunk_type)
  ELSE IF joined_len(current_chunk, sep) + Head(pieces) < limit
  THEN fill_chunks(Tail(pieces), Append(current_chunk, Head(pieces)),
                   limit, sep, page, filename, chunk_type)
  ELSE new_chunk(current_chunk, page, filename, chunk_type)
       \o fill_chunks(Tail(pieces), <<Head(pieces)>>,
                      limit, sep, page, filename, chunk_type)

\* Lines 180-210: enumerate(page_markers[1:], 1) counts the blocks.
RECURSIVE page_chunks(_, _, _)
page_chunks(blocks, i, filename) ==
  IF i > Len(blocks) THEN << >>
  ELSE (IF has_text(blocks[i].paras)
        THEN fill_chunks(blocks[i].paras, << >>, PageChunkLimit, 2, i, filename,
                         "page_section")
        ELSE << >>)
       \o page_chunks(blocks, i + 1, filename)

\* chunk_text_intelligently (lines 167-235) on a text given by its blocks;
\* the keywords of lines 232-233 depend on the words, which this form of
\* the text leaves out.
chunk_blocks(text, filename) ==
  IF text = NoText THEN << >>
  ELSE IF text.blocks # << >> THEN page_chunks(text.blocks, 1, filename)
  ELSE fill_chunks(text.head, << >>, SentenceChunkLimit, 1, 0, filename, "semantic")

\* extract_text_advanced is applied to a PDF of up to MaxPages pages.
InitExtract ==
  /\ NotStarted
  /\ called = "extract_text_advanced"
  /\ \E pages \in Pdfs({<<0>>, <<700>>}) : \E faults \in Faults(Len(pages)) :
       args = [pages |-> pages, faults |-> faults]
  /\ ret = NoCall

Extract ==
  /\ called = "extract_text_advanced"
  /\ ret = NoCall
  /\ ret' = << extract_pages(args.pages, args.faults) >>
  /\ UNCHANGED <<engine, asking, called, args>>

SpecExtract == InitExtract /\ [][Extract]_vars

\* chunk_text_intelligently is applied to the text extracted from a PDF
\* when no strategy raised (line 300), or to a text with no page label.
InitChunk ==
  /\ NotStarted
  /\ called = "chunk_text_intelligently"
  /\ \E text \in {extract_pages(pages,
                      [pdfplumber_open |-> "ok",
                       pdfplumber_pages |-> [i \in 1..Len(pages) |-> "ok"],
                       pdfplumber_exit |-> "ok", pypdf2_open |-> "ok",
                       pypdf2_pages |-> [i \in 1..Len(pages) |-> "ok"]]).text :
                    pages \in Pdfs(Pieces(ParaLens, MaxParas))}
                 \cup {[head |-> s, blocks |-> << >>] :
                         s \in Pieces(SentenceLens, MaxParas)} :
       args = [text |-> text, filename |-> "a.pdf"]
  /\ ret = NoCall

ChunkText ==
  /\ called = "chunk_text_intelligently"
  /\ ret = NoCall
  /\ ret' = << chunk_blocks(args.text, args.filename) >>
  /\ UNCHANGED <<engine, asking, called, args>>

SpecChunk == InitChunk /\ [][ChunkText]_vars

\* ------------------------------------------------ claims C22 and C23
\* extract_text_advanced has returned.
Extracted == called = "extract_text_advanced" /\ ret # NoCall

\* The structure-aware strategy ends in the handler of line 147.
PrimaryRaised ==
  args.faults.pdfplumber_open = "raises" \/ args.faults.pdfplumber_exit = "raises"

\* The plain-text strategy ends in the handler of line 163.
FallbackRaised ==
  \/ args.faults.pypdf2_open = "raises"
  \/ \E i \in 1..Len(args.pages) : args.faults.pypdf2_pages[i] = "text_raises"

\* Something raised while a page was handled by the structure-aware strategy.
PageFailed ==
  /\ args.faults.pdfplumber_open = "ok"
  /\ \E i \in 1..Len(args.pages) : args.faults.pdfplumber_pages[i] # "ok"

\* C22: whenever both extraction strategies fail for a file, at whatever
\* point each one fails, extract_text_advanced returns the empty text with
\* metadata whose page count is 0 and whose extraction method is "unknown".
C22_BothFailGivesUnknown ==
  (Extracted /\ PrimaryRaised /\ FallbackRaised) =>
    /\ ret[1].text = NoText
    /\ ret[1].metadata = UnknownMetadata

\* C23: any failure of the structure-aware strategy, a failure on a single
\* page included, makes the plain-text strategy run for the file; the
\* result of the structure-aware strategy is returned only when it ran
\* without a failure.
C23_AnyPrimaryFailureRunsFallback ==
  Extracted =>
    /\ (PrimaryRaised \/ PageFailed) => ret[1].strategies = <<"pdfplumber", "pypdf2">>
    /\ ret[1].strategies = <<"pdfplumber">> => ~(PrimaryRaised \/ PageFailed)

\* ------------------------------------------------ claims C24 and C25
\* chunk_text_intelligently has returned.
Chunked == called = "chunk_text_intelligently" /\ ret # NoCall

PageBounded(chunk) == chunk.chunk_type = "page_section"

LimitOf(chunk) == IF PageBounded(chunk) THEN PageChunkLimit ELSE SentenceChunkLimit

SepOf(chunk) == IF PageBounded(chunk) THEN 2 ELSE 1

\* len() of what the chunk held before its last piece was appended.
BeforeLast(chunk) == joined_len(SubSeq(chunk.text, 1, Len(chunk.text) - 1), SepOf(chunk))

\* An upper bound of len() of the chunk's text: strip() has taken the last
\* separator away.
LenOf(chunk) == joined_len(chunk.text, SepOf(chunk)) - SepOf(chunk)

\* C24: for every page-bounded chunk the text accumulated before its last
\* paragraph was appended is at most 1500 characters, so the chunk exceeds
\* 1500 characters by no more than the length of its last paragraph; the
\* same with 1000 characters and sentences for the chunks of a text with no
\* page label.
C24_OnlyLastPieceExceeds ==
  Chunked =>
    \A k \in 1..Len(ret[1]) :
      /\ BeforeLast(ret[1][k]) <= LimitOf(ret[1][k])
      /\ LenOf(ret[1][k]) <= LimitOf(ret[1][k]) + ret[1][k].text[Len(ret[1][k].text)]

\* A page gave a chunk of several paragraphs and a chunk longer than 1500.
C24_Witness ==
  /\ Chunked
  /\ \E k \in 1..Len(ret[1]) : PageBounded(ret[1][k]) /\ Len(ret[1][k].text) >= 3
  /\ \E k \in 1..Len(ret[1]) : PageBounded(ret[1][k]) /\ LenOf(ret[1][k]) > PageChunkLimit

\* C25: every page-bounded chunk has as its page field the N of the
\* "Page N" label of the block it was cut from (the block the loop of
\* line 180 was at, which is the page-th), also when some pages of the
\* document gave no text and so no label.
C25_PageIsLabel ==
  Chunked =>
    \A k \in 1..Len(ret[1]) :
      PageBounded(ret[1][k]) =>
        args.text.blocks[ret[1][k].page].label = ret[1][k].page

\* ------------------------------------------ extract_keywords on its own
MaxWords == 12

\* Stop words of three letters and more: the, and, for, iso, that, and six
\* Cyrillic ones (line 241: the 6th and the 11th to the 15th).
StopWordList ==
  << <<"t", "h", "e">>, <<"a", "n", "d">>, <<"f", "o", "r">>, <<"i", "s", "o">>,
     <<"t", "h", "a", "t">>, <<"U+0434", "U+043B", "U+044F">>,
     <<"U+0447", "U+0442", "U+043E">>, <<"U+044D", "U+0442", "U+043E">>,
     <<"U+043A", "U+0430", "U+043A">>, <<"U+0442", "U+0430", "U+043A">>,
     <<"U+0438", "U+043B", "U+0438">> >>

\* Words that are no stop words: "Wax", "Wbx", ...
ContentWord(k) == <<"W", LowerLetters[k], "x">>

RECURSIVE spaced(_)
spaced(words) ==
  IF words = << >> THEN << >> ELSE Head(words) \o <<" ">> \o spaced(Tail(words))

\* A text with the first s stop words twice each, and m content words of
\* which the last occurs twice, the stop words before or after them.
KeywordText(s, m, stops_first) ==
  LET stops == SubSeq(StopWordList, 1, s) \o SubSeq(StopWordList, 1, s)
      content == [k \in 1..m |-> ContentWord(k)]
                 \o (IF m > 0 THEN <<ContentWord(m)>> ELSE << >>)
  IN  spaced(IF stops_first THEN stops \o content ELSE content \o stops)

\* extract_keywords is called with a text and max_keywords (10 at line 233).
InitKeywords ==
  /\ NotStarted
  /\ called = "extract_keywords"
  /\ \E s \in 0..Len(StopWordList), m \in 0..MaxWords, stops_first \in BOOLEAN,
        max_keywords \in {1, 10, 25} :
       args = [text |-> KeywordText(s, m, stops_first), max_keywords |-> max_keywords]
  /\ ret = NoCall

ExtractKeywords ==
  /\ called = "extract_keywords"
  /\ ret = NoCall
  /\ ret' = << extract_keywords(args.text, args.max_keywords) >>
  /\ UNCHANGED <<engine, asking, called, args>>

SpecKeywords == InitKeywords /\ [][ExtractKeywords]_vars

\* ------------------------------------------------------------ claim C26
\* The words of the text the call was made with.
TextWords == re_findall_words(str_lower(args.text), 3)

Frequency(words, w) == Cardinality({j \in DOMAIN words : words[j] = w})

FirstAt(words, w) ==
  CHOOSE j \in DOMAIN words : words[j] = w /\ \A i \in 1..(j - 1) : words[i] # w

\* The keywords are those of a text with these words, for this max_keywords:
\* with picked the words of the keywords and rest the other non-stop words.
TopOf(words, picked, rest, keywords, max_keywords) ==
  /\ Len(keywords) = Min(max_keywords, Cardinality(Range(words) \ stop_words))
  /\ Range(picked) \subseteq Range(words) \ stop_words
  /\ \A k \in 1..Len(keywords) :
       /\ keywords[k] = picked[k] \o <<":">> \o int_str(Frequency(words, picked[k]))
       /\ \A w \in rest : Frequency(words, w) <= Frequency(words, picked[k])
  /\ \A i, j \in 1..Len(keywords) :
       i < j =>
         \/ Frequency(words, picked[i]) > Frequency(words, picked[j])
         \/ /\ Frequency(words, picked[i]) = Frequency(words, picked[j])
            /\ FirstAt(words, picked[i]) < FirstAt(words, picked[j])

KeywordsOf(words, picked, keywords, max_keywords) ==
  TopOf(words, picked, (Range(words) \ stop_words) \ Range(picked), keywords,
        max_keywords)

\* C26: extract_keywords returns the non-stop words of the text with the
\* highest frequencies, as word:count entries by descending frequency with
\* ties in the order of first occurrence, and it returns
\* min(max_keywords, number of distinct non-stop words) entries.
C26_TopNonStopWords ==
  (called = "extract_keywords" /\ ret # NoCall) =>
    KeywordsOf(TextWords, [k \in 1..Len(ret[1]) |-> split_colon_first(ret[1][k])],
               ret[1], args.max_keywords)

\* ------------------------------------------------------------ claim C27
\* The files this pass of caller t indexed: listed by its scan, processed
\* without an error, with a text of more than 100 characters.
IndexedNow(t) ==
  {f \in listed[t] : /\ f \in DOMAIN result[t]
                     /\ result[t][f].outcome = "indexed"
                     /\ result[t][f].textlen > 100}

InitOverlap ==
  /\ running = TRUE
  /\ passNo = 1
  /\ loaded = "none"
  /\ chunk_index = EmptyMap
  /\ documents_cache = EmptyMap
  /\ pc = [t \in Procs |-> "idle"]
  /\ pdf_files = [t \in Procs |-> << >>]
  /\ updated_count = [t \in Procs |-> 0]
  /\ folder = TRUE
  /\ dir \in [Files -> {0} \cup Contents]
  /\ cacheFile = NoFile
  /\ saved = NotSaved
  /\ clock = 0
  /\ listed = [t \in Procs |-> {}]
  /\ result = [t \in Procs |-> EmptyMap]
  /\ atStart = [t \in Procs |-> NoSnapshot]
  /\ saveCalls = [t \in Procs |-> 0]
  /\ returned = [t \in Procs |-> "none"]
  /\ quiet = -1
  /\ HandlerIdle
  /\ ApplyIdle

\* Two reload_documents handlers (lines 723-729) run update_documents in
\* worker threads of the executor (line 46), each at its own pace. No file
\* changes and nothing fails, but json.dump raises "dictionary changed size
\* during iteration" when the other thread adds a key to chunk_index
\* meanwhile.
NextOverlap ==
  \/ \E t \in Procs : StartPass(t)
  \/ \E t \in Procs : ProcessFile(t, {"ok"})
  \/ \E t \in Procs : EndScan(t)
  \/ \E t \in Procs : SaveOpen(t) /\ pc'[t] = "dump"
  \/ \E t \in Procs :
       /\ SaveDump(t)
       /\ \/ saved'.whole
          \/ \E u \in Procs \ {t} :
               /\ pc[u] = "scan"
               /\ pdf_files[u] # << >>
               /\ Head(pdf_files[u]) \notin DOMAIN chunk_index
               /\ Usable(extract_text_advanced(dir[Head(pdf_files[u])], "ok").text)

SpecOverlap == InitOverlap /\ [][NextOverlap]_vars

\* ------------------------------------------------------------ claim C28
\* The PDFs of the folder with a usable text.
UsableFiles ==
  {f \in Files : dir[f] # 0 /\ Usable(extract_text_advanced(dir[f], "ok").text)}

\* What one update_documents call made at the time `now`, on its own,
\* leaves in chunk_index and adds to documents_cache.
AloneIndex ==
  [f \in UsableFiles |->
     chunk_text_intelligently(extract_text_advanced(dir[f], "ok").text, f)]

AloneRecords(now) ==
  [f \in UsableFiles |->
     DocumentRecord(calculate_file_hash(dir[f]), extract_text_advanced(dir[f], "ok"),
                    AloneIndex[f], now, dir[f])]

\* Two calls have been made and both have returned.
BothFinished == \A t \in Procs : returned[t] = "normal" /\ pc[t] = "idle"

\* C28: when two update_documents calls overlap, in any interleaving of
\* their clear, per-file and save steps, with the files unchanged and
\* nothing failing, then once both have finished chunk_index,
\* documents_cache and the snapshot written last are those of a single
\* call on its own (made when the later of the two began).
C28_OverlapSameAsSingleCall ==
  BothFinished =>
    /\ chunk_index = AloneIndex
    /\ documents_cache = AloneRecords(clock)
    /\ IF UsableFiles = {}
       THEN saved = NotSaved /\ cacheFile = NoFile
       ELSE /\ saved = [whole |-> TRUE, documents_cache |-> AloneRecords(clock),
                        chunk_index |-> AloneIndex]
            /\ cacheFile = json_dump(AloneRecords(clock), AloneIndex, clock)

\* Both calls have finished after the second cleared the index in the
\* middle of the first one's loop: a file was indexed by both, another was
\* skipped by one of them because the other had just indexed it.
C28_Witness ==
  /\ BothFinished
  /\ \E f \in Files : \A t \in Procs :
       f \in DOMAIN result[t] /\ result[t][f].outcome = "indexed"
  /\ \E f \in Files : \E t \in Procs :
       f \in DOMAIN result[t] /\ result[t][f].outcome = "skipped"

\* ------------------------------------------------------------ claim C29
AskedAndBack == at = "return" /\ ~direct

\* C29: whatever the collaborators do (each language-model call answers,
\* times out or fails; the web search gives a text or nothing),
\* ask_question_with_fallback terminates without raising: once the search
\* is done it is never stuck before it returns, and it calls no
\* collaborator twice, so it makes at
\* most three language-model calls and one web search; and it returns a
\* source type and a success flag that is False exactly for "not_found".
C29_AskAlwaysReturns ==
  ~direct =>
    /\ Cardinality(Range(calls)) = Len(calls)
    /\ Cardinality({i \in DOMAIN calls : calls[i] \in LlmCalls}) <= 3
    /\ Cardinality(WebCalls) <= 1
    /\ at \in {"idle", "score", "select", "docs_llm", "retry_llm", "web", "web_llm",
               "return"}
    /\ at \in {"docs_llm", "retry_llm", "web", "web_llm"} =>
         ENABLED (AskDocs \/ AskRetry \/ AskWeb \/ AskWebLlm)
    /\ at = "return" =>
         /\ answer.source_type \in {"documents", "documents_timeout", "internet",
                                    "internet_raw", "not_found"}
         /\ answer.success = FALSE <=> answer.source_type = "not_found"

\* The question went through every collaborator: three language-model
\* calls and the web search.
C29_Witness ==
  /\ AskedAndBack
  /\ Cardinality({i \in DOMAIN calls : calls[i] \in LlmCalls}) = 3
  /\ Cardinality(WebCalls) = 1
  /\ answer.success

====
